---- MODULE Spec2Model ----
(***************************************************************************)
(* tiny-dfr: the Backlight & Activity Controller (src/src/backlight.rs)    *)
(* and the Layered Configuration Manager (src/src/config.rs).              *)
(*                                                                         *)
(* Spec    the backlight controller: construction with the discovery       *)
(*         retry loop, process_event, update_backlight, and its            *)
(*         environment (clock, reference display, config tunables).        *)
(* SpecCM  the configuration manager: inotify watches, update_config,      *)
(*         handle_events, load_config, and the files it reads.             *)
(* SpecFair Spec with new() running to its end.                            *)
(* SpecCMFair SpecCM with the caller's event loop polling for ever.        *)
(* SpecMap one call of display_to_touchbar over its u32 arguments.         *)
(* SpecLoad one call of load_config over the files of the three tiers.     *)
(***************************************************************************)
EXTENDS Integers, Sequences, FiniteSets, TLC

VARIABLES
    \* ---- BacklightManager (backlight.rs:76-83) and BacklightManager::new
    pc,               \* "find" (in the discovery loop), "run", "panicked"
    attempts,         \* the loop counter of new(): the failed find_backlight()
                      \* calls so far; kept in the state new() returns and
                      \* dropped (0) by the first step of the event loop
    bl_path,          \* TRUE when find_backlight returned Ok(path)
    bl_file,          \* TRUE for Some(File), FALSE for None
    max_bl,
    current_bl,
    lid_state,        \* SwitchState: "On" is lid closed, "Off" is lid open
    last_active,      \* Instant, in ms
    display_bl_path,  \* TRUE for Some(path)
    \* ---- environment of the controller
    now,              \* the monotonic clock, in ms
    dev,              \* content of the strip's brightness attribute
    display,          \* content of the reference display's brightness attribute
    blcfg,            \* the fields of Config that update_backlight reads
    \* ---- history of the last step
    op,               \* what the last step was
    target,           \* value computed by the last tick before the clamp, -1 if none
    wrote,            \* TRUE when the last step called set_backlight
    lidClosed,        \* TRUE when the last lid toggle delivered was a close
    readRef,          \* TRUE when the last step called read_attr on the
                      \* reference display
    quiet,            \* TRUE when a tick has run and no event and no config
                      \* change has come since
    \* ---- ConfigManager (config.rs:402-406) and its caller
    cm_pc,            \* "new", "load" (before the caller's first load_config),
                      \* "poll" (in the event loop), "panicked"
    watch_desc_etc,   \* Option<WatchDescriptor>: 0 for None
    watch_desc_user,
    cfg,              \* the caller's Config
    layers,           \* the caller's [FunctionLayer; 2]
    width,            \* the strip width the caller passes
    \* ---- environment of the manager
    fs,               \* the config files: usr (package default), etc, user
    user_env,         \* TRUE when the user-environment cache holds a desktop user
    ino,              \* the inotify instance: live watch per file, next descriptor
    queue,            \* the inotify event queue
    \* ---- history of the last step
    cm_op,            \* what the last step of the manager was
    ret,              \* what the last update_config returned
    polls,            \* parity of the number of update_config calls so far
    external,         \* TRUE once another process has written or removed
                      \* a watched file
    writer,           \* "on" while other processes may still change the
                      \* files, "stopped" after the last change
    \* ---- one call of a pure function: its arguments and its result
    mp,               \* BacklightManager::display_to_touchbar
    ld                \* load_config

blvars == <<pc, attempts, bl_path, bl_file, max_bl, current_bl, lid_state,
            last_active, display_bl_path, now, dev, display, blcfg,
            op, target, wrote, lidClosed, readRef, quiet>>

cmvars == <<cm_pc, watch_desc_etc, watch_desc_user, cfg, layers, width,
            fs, user_env, ino, queue, cm_op, ret, polls, external,
            writer>>

purevars == <<mp, ld>>

vars == <<blvars, cmvars, purevars>>

----------------------------------------------------------------------------
(* Bounds of the model *)

\* The poll interval of the caller; the model's unit of scale for the clock.
TIMEOUT_MS == 1

(* Program constants *)
MAX_DISPLAY_BRIGHTNESS == 509
MAX_TOUCH_BAR_BRIGHTNESS == 255
BRIGHTNESS_DIM_TIMEOUT == TIMEOUT_MS * 3
BRIGHTNESS_OFF_TIMEOUT == TIMEOUT_MS * 6
DIMMED_BRIGHTNESS == 1
\* mutant: the loop gives up two failures early
Mut_RetryLimit == 5 - 2
\* mutant: the loop allows two more retries
Mut_RetryLimitSeven == 5 + 2
\* mutant: the loop allows one more retry
Mut_RetryLimitSix == 5 + 1
\* `Err(_) if attempts < 5`
RetryLimit == 5

\* The clock stops here: past the off threshold nothing more depends on it.
MaxTime == BRIGHTNESS_OFF_TIMEOUT + 1

(* Values the environment supplies *)
HwMaxValues == {100}
DisplayValues == {127, 509}
ActiveBrightnessValues == {0, 128}
BlConfigs == [adaptive_brightness : BOOLEAN, active_brightness : ActiveBrightnessValues]

NoSwitch == "NA"
ActivityKinds == {"Keyboard", "Pointer", "Gesture", "Touch"}
OtherKinds == {"Device", "Tablet"}
Events ==
    [kind : ActivityKinds \cup OtherKinds, switch : {NoSwitch}, state : {NoSwitch}]
    \cup [kind : {"SwitchToggle"}, switch : {"Lid", "TabletMode", "None"},
          state : {"On", "Off"}]

Min(a, b) == IF a < b THEN a ELSE b

----------------------------------------------------------------------------
(* Pure functions of backlight.rs *)

\* floor(sqrt(display / 509) * active): the f64 product truncated by `as u32`
ScaledSqrt(d, a) ==
    CHOOSE k \in 0..(a * 3) :
        /\ k * k * MAX_DISPLAY_BRIGHTNESS <= a * a * d
        /\ (k + 1) * (k + 1) * MAX_DISPLAY_BRIGHTNESS > a * a * d

display_to_touchbar(d, active_brightness) ==
    Min(ScaledSqrt(d, active_brightness) + 1, MAX_TOUCH_BAR_BRIGHTNESS)

\* mutant: the reference display is read whenever it was discovered
Mut_ReadsDisplayAlways(lid, since, conf, havePath) ==
    /\ lid # "On"
    /\ since < BRIGHTNESS_DIM_TIMEOUT
    /\ havePath

\* the `if` chain inside min(self.max_bl, ...) of update_backlight
ReadsDisplay(lid, since, conf, havePath) ==
    /\ lid # "On"
    /\ since < BRIGHTNESS_DIM_TIMEOUT
    /\ conf.adaptive_brightness
    /\ havePath

\* mutant: the dim threshold compared with <= instead of <
Mut_TargetBrightness(lid, since, conf, havePath, reading) ==
    IF lid = "On" THEN 0
    ELSE IF since <= BRIGHTNESS_DIM_TIMEOUT THEN
        IF conf.adaptive_brightness
        THEN IF havePath
             THEN display_to_touchbar(reading, conf.active_brightness)
             ELSE conf.active_brightness
        ELSE conf.active_brightness
    ELSE IF since < BRIGHTNESS_OFF_TIMEOUT THEN DIMMED_BRIGHTNESS
    ELSE 0

TargetBrightness(lid, since, conf, havePath, reading) ==
    IF lid = "On" THEN 0
    ELSE IF since < BRIGHTNESS_DIM_TIMEOUT THEN
        IF conf.adaptive_brightness
        THEN IF havePath
             THEN display_to_touchbar(reading, conf.active_brightness)
             ELSE conf.active_brightness
        ELSE conf.active_brightness
    ELSE IF since < BRIGHTNESS_OFF_TIMEOUT THEN DIMMED_BRIGHTNESS
    ELSE 0

\* mutant: every tick writes
Mut_NeedsWrite(cur, new_bl) == TRUE
\* `if self.current_bl != new_bl`
NeedsWrite(cur, new_bl) == cur # new_bl

\* mutant: an activity event also reopens the lid state
Mut_ProcessEventWakes(e, t, la, lid) ==
    IF e.kind \in {"Keyboard", "Pointer", "Gesture", "Touch"}
    THEN [last_active |-> t, lid_state |-> "Off"]
    ELSE IF e.kind = "SwitchToggle" /\ e.switch = "Lid"
    THEN [last_active |-> IF e.state = "Off" THEN t ELSE la, lid_state |-> e.state]
    ELSE [last_active |-> la, lid_state |-> lid]

\* mutant: every lid toggle refreshes last_active, and any switch counts as the lid
Mut_ProcessEventAnyToggle(e, t, la, lid) ==
    IF e.kind \in {"Keyboard", "Pointer", "Gesture", "Touch"}
    THEN [last_active |-> t, lid_state |-> lid]
    ELSE IF e.kind = "SwitchToggle"
    THEN [last_active |-> t, lid_state |-> e.state]
    ELSE [last_active |-> la, lid_state |-> lid]

\* process_event: the new (last_active, lid_state) for event e at time t
ProcessEventResult(e, t, la, lid) ==
    IF e.kind \in {"Keyboard", "Pointer", "Gesture", "Touch"}
    THEN [last_active |-> t, lid_state |-> lid]
    ELSE IF e.kind = "SwitchToggle" /\ e.switch = "Lid"
    THEN [last_active |-> IF e.state = "Off" THEN t ELSE la, lid_state |-> e.state]
    ELSE [last_active |-> la, lid_state |-> lid]

\* the class of an event in the terms of the controller's contract
EventClass(e) ==
    IF e.kind \in ActivityKinds THEN "ev_activity"
    ELSE IF e.kind = "SwitchToggle" /\ e.switch = "Lid"
    THEN (IF e.state = "On" THEN "ev_lid_close" ELSE "ev_lid_open")
    ELSE "ev_other"

----------------------------------------------------------------------------
(* BacklightManager::new *)

InitBL ==
    /\ pc = "find"
    /\ attempts = 0
    /\ bl_path = FALSE
    /\ bl_file = FALSE
    /\ max_bl = 0
    /\ current_bl = 0
    /\ lid_state = "Off"
    /\ last_active = 0
    /\ display_bl_path = FALSE
    /\ now = 0
    /\ dev = 0
    /\ display \in DisplayValues
    /\ blcfg \in BlConfigs
    /\ op = "init"
    /\ target = -1
    /\ wrote = FALSE
    /\ lidClosed = FALSE
    /\ readRef = FALSE
    /\ quiet = FALSE

\* the part of new() after the discovery loop, for a loop result `found`
Construct(found, openOk, hwmax, hwcur, maxOk, curOk, dispFound) ==
    /\ bl_path' = found
    /\ bl_file' = (found /\ openOk)
    /\ max_bl' = IF found /\ maxOk THEN hwmax ELSE MAX_TOUCH_BAR_BRIGHTNESS
    /\ current_bl' = IF found /\ curOk THEN hwcur ELSE MAX_TOUCH_BAR_BRIGHTNESS
    /\ dev' = IF found THEN hwcur ELSE dev
    /\ display_bl_path' = dispFound
    /\ lid_state' = "Off"
    /\ last_active' = now
    /\ pc' = "run"

\* find_backlight() = Err(_) with attempts < 5: sleep 1s and retry
FindRetry ==
    /\ UNCHANGED <<cmvars, purevars>>
    /\ quiet' = FALSE
    /\ readRef' = FALSE
    /\ pc = "find"
    /\ attempts < RetryLimit
    /\ attempts' = attempts + 1
    /\ op' = "sleep"
    /\ UNCHANGED <<pc, bl_path, bl_file, max_bl, current_bl, lid_state, last_active,
                   display_bl_path, now, dev, display, blcfg, target, wrote, lidClosed>>

\* find_backlight() = Ok(path)
FindOk ==
    /\ UNCHANGED <<cmvars, purevars>>
    /\ quiet' = FALSE
    /\ readRef' = FALSE
    /\ pc = "find"
    /\ \E openOk, maxOk, curOk, dispFound \in BOOLEAN :
       \E hwmax \in HwMaxValues : \E hwcur \in {0, hwmax} :
           Construct(TRUE, openOk, hwmax, hwcur, maxOk, curOk, dispFound)
    /\ op' = "new"
    /\ UNCHANGED <<attempts, now, display, blcfg, target, wrote, lidClosed>>

\* find_backlight() = Err(e) with attempts >= 5: give up
FindGiveUp ==
    /\ UNCHANGED <<cmvars, purevars>>
    /\ quiet' = FALSE
    /\ readRef' = FALSE
    /\ pc = "find"
    /\ ~(attempts < RetryLimit)
    /\ \E dispFound \in BOOLEAN :
           Construct(FALSE, FALSE, 0, 0, FALSE, FALSE, dispFound)
    /\ op' = "new"
    /\ UNCHANGED <<attempts, now, display, blcfg, target, wrote, lidClosed>>

----------------------------------------------------------------------------
(* BacklightManager::process_event *)

ProcessEvent ==
    /\ UNCHANGED <<cmvars, purevars>>
    /\ quiet' = FALSE
    /\ readRef' = FALSE
    /\ pc = "run"
    /\ \E e \in Events :
        LET r == ProcessEventResult(e, now, last_active, lid_state) IN
        /\ last_active' = r.last_active
        /\ lid_state' = r.lid_state
        /\ op' = EventClass(e)
        /\ lidClosed' = CASE EventClass(e) = "ev_lid_close" -> TRUE
                          [] EventClass(e) = "ev_lid_open" -> FALSE
                          [] OTHER -> lidClosed
    /\ target' = -1
    /\ wrote' = FALSE
    /\ attempts' = 0
    /\ UNCHANGED <<pc, bl_path, bl_file, max_bl, current_bl,
                   display_bl_path, now, dev, display, blcfg>>

----------------------------------------------------------------------------
(* BacklightManager::update_backlight *)

\* mutant: the early return is missing
Mut_TickReturnsEarly == FALSE
\* `if self.bl_file.is_none() { return; }`
TickReturnsEarly == ~bl_file

UpdateBacklight ==
    /\ UNCHANGED <<cmvars, purevars>>
    /\ quiet' = TRUE
    /\ pc = "run"
    /\ op' = "tick"
    /\ readRef' = (~TickReturnsEarly
                    /\ ReadsDisplay(lid_state, now - last_active, blcfg,
                                    display_bl_path))
    /\ IF TickReturnsEarly
       THEN /\ target' = -1
            /\ wrote' = FALSE
            /\ UNCHANGED <<pc, current_bl, dev>>
       ELSE LET since == now - last_active IN
            \E readOk, writeOk \in BOOLEAN :
            IF ReadsDisplay(lid_state, since, blcfg, display_bl_path) /\ ~readOk
            THEN \* read_attr panics
                 /\ pc' = "panicked"
                 /\ target' = -1
                 /\ wrote' = FALSE
                 /\ UNCHANGED <<current_bl, dev>>
            ELSE LET t == TargetBrightness(lid_state, since, blcfg,
                                           display_bl_path, display)
                     new_bl == Min(max_bl, t)
                 IN  /\ target' = t
                     /\ IF NeedsWrite(current_bl, new_bl)
                        THEN /\ current_bl' = new_bl
                             /\ wrote' = TRUE
                             /\ IF writeOk
                                THEN dev' = new_bl /\ pc' = pc
                                ELSE dev' = dev /\ pc' = "panicked"
                        ELSE /\ wrote' = FALSE
                             /\ UNCHANGED <<pc, current_bl, dev>>
    /\ attempts' = 0
    /\ UNCHANGED <<bl_path, bl_file, max_bl, lid_state, last_active,
                   display_bl_path, now, display, blcfg, lidClosed>>

----------------------------------------------------------------------------
(* Environment of the controller *)

Advance ==
    /\ UNCHANGED <<cmvars, purevars>>
    /\ UNCHANGED quiet
    /\ readRef' = FALSE
    /\ pc = "run"
    /\ now < MaxTime
    /\ now' = now + 1
    /\ op' = "env"
    /\ target' = -1
    /\ wrote' = FALSE
    /\ attempts' = 0
    /\ UNCHANGED <<pc, bl_path, bl_file, max_bl, current_bl, lid_state,
                   last_active, display_bl_path, dev, display, blcfg, lidClosed>>

\* the caller's Config is replaced by a reload
ConfigChange ==
    /\ UNCHANGED <<cmvars, purevars>>
    /\ quiet' = FALSE
    /\ readRef' = FALSE
    /\ pc = "run"
    /\ \E c \in BlConfigs : c # blcfg /\ blcfg' = c
    /\ op' = "env"
    /\ target' = -1
    /\ wrote' = FALSE
    /\ attempts' = 0
    /\ UNCHANGED <<pc, bl_path, bl_file, max_bl, current_bl, lid_state,
                   last_active, display_bl_path, now, dev, display, lidClosed>>

\* the main display's brightness changes
DisplayChange ==
    /\ UNCHANGED <<cmvars, purevars>>
    /\ UNCHANGED quiet
    /\ readRef' = FALSE
    /\ pc = "run"
    /\ display_bl_path
    /\ \E d \in DisplayValues : d # display /\ display' = d
    /\ op' = "env"
    /\ target' = -1
    /\ wrote' = FALSE
    /\ attempts' = 0
    /\ UNCHANGED <<pc, bl_path, bl_file, max_bl, current_bl, lid_state,
                   last_active, display_bl_path, now, dev, blcfg, lidClosed>>

----------------------------------------------------------------------------
(* Configuration files and ConfigProxy (config.rs:154-170) *)

\* Bounds of the configuration-manager model
\* watch descriptors the inotify instance hands out before the model stops
MaxWd == 8

None == <<>>
Some(v) == <<v>>
IsSome(o) == Len(o) = 1
Unwrap(o) == o[1]
\* Option::or
OrElse(a, b) == IF IsSome(a) THEN a ELSE b
\* Option::unwrap_or
UnwrapOr(o, d) == IF IsSome(o) THEN o[1] ELSE d

Fields ==
    {"media_layer_default", "show_button_outlines", "enable_pixel_shift",
     "font_template", "adaptive_brightness", "active_brightness",
     "primary_layer_keys", "media_layer_keys", "keyboard_brightness_step",
     "keyboard_brightness_enabled", "back_button_show_outlines",
     "back_button_outline_color", "expandable_timeout_seconds"}

EmptyProxy == [f \in Fields |-> None]

\* a file: absent, present but not parsable as a ConfigProxy, or parsed
AbsentFile == [st |-> "absent", proxy |-> EmptyProxy]
BadFile == [st |-> "bad", proxy |-> EmptyProxy]
OkFile(p) == [st |-> "ok", proxy |-> p]

\* the package default /usr/share/tiny-dfr/config.toml of the model
BaseProxy ==
    [EmptyProxy EXCEPT
        !["media_layer_default"] = Some(FALSE),
        !["show_button_outlines"] = Some(TRUE),
        !["enable_pixel_shift"] = Some(FALSE),
        !["font_template"] = Some(":bold"),
        !["adaptive_brightness"] = Some(TRUE),
        !["active_brightness"] = Some(128),
        !["primary_layer_keys"] = Some(<<"F1", "F2">>),
        !["media_layer_keys"] = Some(<<"BrightnessDown", "Mute">>)]

\* contents an administrator or user writes to the override files
EtcProxyA ==
    [EmptyProxy EXCEPT
        !["active_brightness"] = Some(200),
        !["primary_layer_keys"] = Some(<<"F1">>)]
EtcProxyB ==
    [EmptyProxy EXCEPT
        !["media_layer_default"] = Some(TRUE),
        !["keyboard_brightness_step"] = Some(16)]
UserProxyA ==
    [EmptyProxy EXCEPT
        !["active_brightness"] = Some(64),
        !["media_layer_keys"] = Some(<<"Mute">>)]

UsrFiles == {OkFile(BaseProxy), BadFile}
EtcWrites == {OkFile(EtcProxyA), OkFile(EtcProxyB)}
UserWrites == {OkFile(UserProxyA), BadFile}
Writes(slot) == IF slot = "etc" THEN EtcWrites ELSE UserWrites
Widths == {2169, 2170}

----------------------------------------------------------------------------
(* load_config (config.rs:304-400) *)

\* mutant: the lower tier wins
Mut_MergeProxyLeftBiased(over, base) == [f \in Fields |-> OrElse(base[f], over[f])]
\* the `base.x = user.x.or(base.x)` block, one line per field
MergeProxy(over, base) == [f \in Fields |-> OrElse(over[f], base[f])]

\* mutant: a system file that does not parse erases the package default
Mut_MergedProxyBadErases(files, detected) ==
    LET b0 == IF files.etc.st = "bad" THEN EmptyProxy ELSE files.usr.proxy
        b1 == IF files.etc.st = "ok" THEN MergeProxy(files.etc.proxy, b0) ELSE b0
    IN  IF detected /\ files.user.st = "ok"
        THEN MergeProxy(files.user.proxy, b1)
        ELSE b1
\* the ConfigProxy after the system and per-user merges
MergedProxy(files, detected) ==
    LET b0 == files.usr.proxy
        b1 == IF files.etc.st = "ok" THEN MergeProxy(files.etc.proxy, b0) ELSE b0
    IN  IF detected /\ files.user.st = "ok"
        THEN MergeProxy(files.user.proxy, b1)
        ELSE b1

\* the fields load_config unwraps without a default
Mandatory ==
    {"media_layer_keys", "primary_layer_keys", "media_layer_default",
     "show_button_outlines", "enable_pixel_shift", "adaptive_brightness",
     "font_template", "active_brightness"}

EscKey == "esc"
\* mutant: the key is inserted above 2170 only
Mut_WithEscAbove(w, keys) == IF w > 2170 THEN <<EscKey>> \o keys ELSE keys
\* `if width >= 2170 { layer.insert(0, esc) }`
WithEsc(w, keys) == IF w >= 2170 THEN <<EscKey>> \o keys ELSE keys

\* what the files were when a load_config call read them
Snapshot(files, detected) == [files |-> files, detected |-> detected]

NoConfig == [ok |-> FALSE]

\* load_config: [ok |-> FALSE] when it panics, else the (Config, layers) pair.
\* `src` records the call the value came from, by what the call read.
LoadConfig(w, files, detected, fontOk) ==
    IF files.usr.st # "ok" THEN NoConfig
    ELSE LET b == MergedProxy(files, detected) IN
         IF (\E f \in Mandatory : ~IsSome(b[f])) \/ ~fontOk THEN NoConfig
         ELSE LET media_layer == WithEsc(w, Unwrap(b["media_layer_keys"]))
                  fkey_layer == WithEsc(w, Unwrap(b["primary_layer_keys"]))
              IN [ok |-> TRUE,
                  cfg |->
                    [show_button_outlines |-> Unwrap(b["show_button_outlines"]),
                     enable_pixel_shift |-> Unwrap(b["enable_pixel_shift"]),
                     adaptive_brightness |-> Unwrap(b["adaptive_brightness"]),
                     font_face |-> Unwrap(b["font_template"]),
                     active_brightness |-> Unwrap(b["active_brightness"]),
                     keyboard_brightness_step |->
                         UnwrapOr(b["keyboard_brightness_step"], 32),
                     keyboard_brightness_enabled |->
                         UnwrapOr(b["keyboard_brightness_enabled"], TRUE),
                     back_button_show_outlines |->
                         UnwrapOr(b["back_button_show_outlines"], FALSE),
                     back_button_outline_color |-> b["back_button_outline_color"],
                     expandable_timeout_seconds |->
                         UnwrapOr(b["expandable_timeout_seconds"], 5),
                     src |-> Snapshot(files, detected)],
                  layers |->
                    [first |-> IF Unwrap(b["media_layer_default"])
                               THEN media_layer ELSE fkey_layer,
                     second |-> IF Unwrap(b["media_layer_default"])
                                THEN fkey_layer ELSE media_layer,
                     src |-> Snapshot(files, detected)]]

----------------------------------------------------------------------------
(* inotify: one-shot watches on IN_MOVED_TO | IN_CLOSE *)

Slots == {"etc", "user"}

\* mutant: no watch is ever added for the per-user file
Mut_arm_inotifyEtcOnly(k, files, slot) ==
    IF files[slot].st = "absent" \/ slot = "user" THEN [ino |-> k, wd |-> 0]
    ELSE IF k.watch[slot] # 0 THEN [ino |-> k, wd |-> k.watch[slot]]
    ELSE [ino |-> [watch |-> [k.watch EXCEPT ![slot] = k.next], next |-> k.next + 1],
          wd |-> k.next]

\* inotify_add_watch with IN_ONESHOT: ENOENT (0) for a missing path, the
\* descriptor of the live watch when the file has one, else a fresh descriptor
arm_inotify(k, files, slot) ==
    IF files[slot].st = "absent" THEN [ino |-> k, wd |-> 0]
    ELSE IF k.watch[slot] # 0 THEN [ino |-> k, wd |-> k.watch[slot]]
    ELSE [ino |-> [watch |-> [k.watch EXCEPT ![slot] = k.next], next |-> k.next + 1],
          wd |-> k.next]

\* a close of the file: a live watch delivers the event and IN_IGNORED, and is gone
Fire(w, slot, mask) ==
    IF w.ino.watch[slot] = 0 THEN w
    ELSE [ino |-> [w.ino EXCEPT !.watch[slot] = 0],
          queue |-> w.queue \o <<[wd |-> w.ino.watch[slot], mask |-> mask],
                                  [wd |-> w.ino.watch[slot], mask |-> "IGNORED"]>>]

\* the unlink of the file: a live watch delivers IN_IGNORED alone, and is gone
Unlink(w, slot) ==
    IF w.ino.watch[slot] = 0 THEN w
    ELSE [ino |-> [w.ino EXCEPT !.watch[slot] = 0],
          queue |-> Append(w.queue, [wd |-> w.ino.watch[slot], mask |-> "IGNORED"])]

\* the read_to_string calls of load_config on the watched files: each opens and
\* closes the file if it exists; a panic on the package default comes first
LoadReads(w, files, detected) ==
    IF files.usr.st # "ok" THEN w
    ELSE LET w1 == IF files.etc.st # "absent"
                   THEN Fire(w, "etc", "CLOSE_NOWRITE") ELSE w
         IN  IF detected /\ files.user.st # "absent"
             THEN Fire(w1, "user", "CLOSE_NOWRITE") ELSE w1

----------------------------------------------------------------------------
(* ConfigManager *)

\* what the caller holds before its first load_config
NoValue == [none |-> TRUE]
Loaded(v) == "src" \in DOMAIN v

InitCM ==
    /\ cm_pc = "new"
    /\ watch_desc_etc = 0
    /\ watch_desc_user = 0
    /\ cfg = NoValue
    /\ layers = NoValue
    /\ width \in Widths
    /\ fs \in [usr : UsrFiles, etc : EtcWrites \cup {AbsentFile},
               user : UserWrites \cup {AbsentFile}]
    /\ user_env \in BOOLEAN
    /\ ino = [watch |-> [s \in Slots |-> 0], next |-> 1]
    /\ queue = <<>>
    /\ cm_op = "init"
    /\ ret = FALSE
    /\ polls = 0
    /\ external = FALSE
    /\ writer = "on"

\* ConfigManager::new
CMNew ==
    /\ UNCHANGED <<blvars, purevars>>
    /\ UNCHANGED writer
    /\ UNCHANGED external
    /\ cm_pc = "new"
    /\ LET a1 == arm_inotify(ino, fs, "etc")
           a2 == IF user_env THEN arm_inotify(a1.ino, fs, "user")
                 ELSE [ino |-> a1.ino, wd |-> 0]
       IN  /\ watch_desc_etc' = a1.wd
           /\ watch_desc_user' = a2.wd
           /\ ino' = a2.ino
    /\ cm_pc' = "load"
    /\ cm_op' = "new"
    /\ UNCHANGED <<cfg, layers, width, fs, user_env, queue, ret, polls>>

\* the caller's first ConfigManager::load_config
InitialLoad ==
    /\ UNCHANGED <<blvars, purevars>>
    /\ UNCHANGED writer
    /\ UNCHANGED external
    /\ cm_pc = "load"
    /\ LET parts == LoadConfig(width, fs, user_env, TRUE)
           w == LoadReads([ino |-> ino, queue |-> queue], fs, user_env)
       IN  /\ ino' = w.ino
           /\ queue' = w.queue
           /\ IF parts.ok
              THEN cfg' = parts.cfg /\ layers' = parts.layers /\ cm_pc' = "poll"
              ELSE UNCHANGED <<cfg, layers>> /\ cm_pc' = "panicked"
    /\ cm_op' = "load"
    /\ UNCHANGED <<watch_desc_etc, watch_desc_user, width, fs, user_env, ret, polls>>

\* mutant: only the Config is replaced
Mut_ReplaceCfgOnly(cur, parts) == [cfg |-> parts.cfg, layers |-> cur.layers]
\* `*cfg = parts.0; *layers = parts.1;`
Replace(cur, parts) == [cfg |-> parts.cfg, layers |-> parts.layers]

\* mutant: the reload re-arms the system-tier watch only
Mut_HandleEventNoUserRearm(m, evt, w, files, detected) ==
    IF m.panicked THEN m
    ELSE IF (m.wde # 0 /\ evt.wd = m.wde) \/ (m.wdu # 0 /\ evt.wd = m.wdu)
    THEN LET parts == LoadConfig(w, files, detected, TRUE)
             k1 == LoadReads(m.k, files, detected)
         IN  IF ~parts.ok THEN [m EXCEPT !.panicked = TRUE, !.k = k1]
             ELSE LET a1 == arm_inotify(k1.ino, files, "etc")
                  IN [k |-> [ino |-> a1.ino, queue |-> k1.queue],
                      wde |-> a1.wd, wdu |-> m.wdu,
                      cfg |-> parts.cfg, layers |-> parts.layers,
                      ret |-> TRUE, panicked |-> FALSE]
    ELSE m

\* mutant: every drained event triggers a reload, tracked or not
Mut_HandleEventAnyWd(m, evt, w, files, detected) ==
    IF m.panicked THEN m
    ELSE LET parts == LoadConfig(w, files, detected, TRUE)
             k1 == LoadReads(m.k, files, detected)
         IN  IF ~parts.ok THEN [m EXCEPT !.panicked = TRUE, !.k = k1]
             ELSE LET a1 == arm_inotify(k1.ino, files, "etc")
                      a2 == IF detected THEN arm_inotify(a1.ino, files, "user")
                            ELSE [ino |-> a1.ino, wd |-> m.wdu]
                  IN [k |-> [ino |-> a2.ino, queue |-> k1.queue],
                      wde |-> a1.wd, wdu |-> a2.wd,
                      cfg |-> parts.cfg, layers |-> parts.layers,
                      ret |-> TRUE, panicked |-> FALSE]

\* one iteration of the `for evt in evts` loop of handle_events, on the state
\* m = (inotify, handles, caller's config and layers, ret, panicked)
HandleEvent(m, evt, w, files, detected) ==
    IF m.panicked THEN m
    ELSE IF (m.wde # 0 /\ evt.wd = m.wde) \/ (m.wdu # 0 /\ evt.wd = m.wdu)
    THEN LET parts == LoadConfig(w, files, detected, TRUE)
             k1 == LoadReads(m.k, files, detected)
         IN  IF ~parts.ok THEN [m EXCEPT !.panicked = TRUE, !.k = k1]
             ELSE LET new == Replace([cfg |-> m.cfg, layers |-> m.layers], parts)
                      a1 == arm_inotify(k1.ino, files, "etc")
                      a2 == IF detected THEN arm_inotify(a1.ino, files, "user")
                            ELSE [ino |-> a1.ino, wd |-> m.wdu]
                  IN [k |-> [ino |-> a2.ino, queue |-> k1.queue],
                      wde |-> a1.wd, wdu |-> a2.wd,
                      cfg |-> new.cfg, layers |-> new.layers,
                      ret |-> TRUE, panicked |-> FALSE]
    ELSE m

RECURSIVE handle_events(_, _, _, _, _)
handle_events(m, evts, w, files, detected) ==
    IF evts = <<>> THEN m
    ELSE CHOOSE r \in {handle_events(m1, Tail(evts), w, files, detected) :
                          m1 \in {HandleEvent(m, Head(evts), w, files, detected)}} :
             TRUE

\* mutant: the poll returns early only when the user watch stays unarmed
Mut_UserWatchUnarmed ==
    watch_desc_user = 0 /\ ~(user_env /\ fs.user.st # "absent")
\* `if self.watch_desc_user.is_none()`
UserWatchUnarmed == watch_desc_user = 0

\* ConfigManager::update_config
UpdateConfig ==
    /\ UNCHANGED <<blvars, purevars>>
    /\ UNCHANGED writer
    /\ UNCHANGED external
    /\ cm_pc = "poll"
    /\ LET a1 == IF watch_desc_etc = 0 THEN arm_inotify(ino, fs, "etc")
                 ELSE [ino |-> ino, wd |-> watch_desc_etc]
       IN  IF UserWatchUnarmed
           THEN \* arm the user watch if a user is known, and return false
                LET a2 == IF user_env THEN arm_inotify(a1.ino, fs, "user")
                          ELSE [ino |-> a1.ino, wd |-> 0]
                IN  /\ a2.ino.next <= MaxWd + 1
                    /\ watch_desc_etc' = a1.wd
                    /\ watch_desc_user' = a2.wd
                    /\ ino' = a2.ino
                    /\ ret' = FALSE
                    /\ cm_op' = "poll_early"
                    /\ UNCHANGED <<cm_pc, cfg, layers, queue>>
           ELSE IF queue = <<>>
           THEN \* read_events: EAGAIN
                /\ a1.ino.next <= MaxWd + 1
                /\ watch_desc_etc' = a1.wd
                /\ ino' = a1.ino
                /\ ret' = FALSE
                /\ cm_op' = "poll_idle"
                /\ UNCHANGED <<cm_pc, watch_desc_user, cfg, layers, queue>>
           ELSE \E m0 \in {[k |-> [ino |-> a1.ino, queue |-> <<>>],
                             wde |-> a1.wd, wdu |-> watch_desc_user,
                             cfg |-> cfg, layers |-> layers,
                             ret |-> FALSE, panicked |-> FALSE]} :
                \E m \in {handle_events(m0, queue, width, fs, user_env)} :
                    /\ m.k.ino.next <= MaxWd + 1
                    /\ watch_desc_etc' = m.wde
                    /\ watch_desc_user' = m.wdu
                    /\ ino' = m.k.ino
                    /\ queue' = m.k.queue
                    /\ cfg' = m.cfg
                    /\ layers' = m.layers
                    /\ ret' = m.ret
                    /\ cm_pc' = IF m.panicked THEN "panicked" ELSE cm_pc
                    /\ cm_op' = "poll_events"
    /\ polls' = 1 - polls
    /\ UNCHANGED <<width, fs, user_env>>

----------------------------------------------------------------------------
(* Environment of the manager *)

\* another process writes an override file and closes it
WriteFile(slot) ==
    /\ UNCHANGED <<blvars, purevars>>
    /\ writer = "on" /\ UNCHANGED writer
    /\ external' = TRUE
    /\ cm_pc # "panicked"
    /\ \E f \in Writes(slot) :
        /\ fs' = [fs EXCEPT ![slot] = f]
        /\ LET w == Fire([ino |-> ino, queue |-> queue], slot, "CLOSE_WRITE")
           IN  ino' = w.ino /\ queue' = w.queue
    /\ cm_op' = "env"
    /\ UNCHANGED <<cm_pc, watch_desc_etc, watch_desc_user, cfg, layers, width,
                   user_env, ret, polls>>

\* another process removes an override file
DeleteFile(slot) ==
    /\ UNCHANGED <<blvars, purevars>>
    /\ writer = "on" /\ UNCHANGED writer
    /\ external' = TRUE
    /\ cm_pc # "panicked"
    /\ fs[slot].st # "absent"
    /\ fs' = [fs EXCEPT ![slot] = AbsentFile]
    /\ LET w == Unlink([ino |-> ino, queue |-> queue], slot)
       IN  ino' = w.ino /\ queue' = w.queue
    /\ cm_op' = "env"
    /\ UNCHANGED <<cm_pc, watch_desc_etc, watch_desc_user, cfg, layers, width,
                   user_env, ret, polls>>

\* the user-environment cache learns the desktop user
DetectUser ==
    /\ UNCHANGED <<blvars, purevars>>
    /\ UNCHANGED writer
    /\ UNCHANGED external
    /\ cm_pc # "panicked"
    /\ ~user_env
    /\ user_env' = TRUE
    /\ cm_op' = "env"
    /\ UNCHANGED <<cm_pc, watch_desc_etc, watch_desc_user, cfg, layers, width,
                   fs, ino, queue, ret, polls>>


----------------------------------------------------------------------------
(* A write that lands inside a reload, after load_config has read the file  *)
(* and before arm_inotify re-arms its watch (config.rs:462-470)             *)

\* the loop body of handle_events for a tracked event, with the file `slot`
\* written (files becoming files2) between load_config and the re-arm
RacingReload(m, w, files, files2, slot, detected) ==
    LET parts == LoadConfig(w, files, detected, TRUE)
        k1 == LoadReads(m.k, files, detected)
    IN  IF ~parts.ok THEN [m EXCEPT !.panicked = TRUE, !.k = k1]
        ELSE LET new == Replace([cfg |-> m.cfg, layers |-> m.layers], parts)
                 k2 == Fire(k1, slot, "CLOSE_WRITE")
                 a1 == arm_inotify(k2.ino, files2, "etc")
                 a2 == IF detected THEN arm_inotify(a1.ino, files2, "user")
                       ELSE [ino |-> a1.ino, wd |-> m.wdu]
             IN [k |-> [ino |-> a2.ino, queue |-> k2.queue],
                 wde |-> a1.wd, wdu |-> a2.wd,
                 cfg |-> new.cfg, layers |-> new.layers,
                 ret |-> TRUE, panicked |-> FALSE]

\* handle_events where the write lands in the reload of the first tracked
\* event; `raced` tells whether there was one
RECURSIVE handle_events_racing(_, _, _, _, _, _, _)
handle_events_racing(m, evts, w, files, files2, slot, detected) ==
    IF evts = <<>> THEN [m |-> m, raced |-> FALSE]
    ELSE IF (m.wde # 0 /\ Head(evts).wd = m.wde) \/ (m.wdu # 0 /\ Head(evts).wd = m.wdu)
    THEN [m |-> handle_events(RacingReload(m, w, files, files2, slot, detected),
                              Tail(evts), w, files2, detected),
          raced |-> TRUE]
    ELSE handle_events_racing(m, Tail(evts), w, files, files2, slot, detected)

\* ConfigManager::update_config reading events, with another process writing
\* a watched file during the reload
UpdateConfigRacing ==
    /\ UNCHANGED <<blvars, purevars>>
    /\ cm_pc = "poll"
    /\ writer = "on"
    /\ ~UserWatchUnarmed
    /\ queue # <<>>
    /\ \E slot \in Slots : \E f \in Writes(slot) :
        LET a1 == IF watch_desc_etc = 0 THEN arm_inotify(ino, fs, "etc")
                  ELSE [ino |-> ino, wd |-> watch_desc_etc]
            m0 == [k |-> [ino |-> a1.ino, queue |-> <<>>],
                   wde |-> a1.wd, wdu |-> watch_desc_user,
                   cfg |-> cfg, layers |-> layers,
                   ret |-> FALSE, panicked |-> FALSE]
            files2 == [fs EXCEPT ![slot] = f]
            r == handle_events_racing(m0, queue, width, fs, files2, slot, user_env)
        IN  /\ fs[slot].st # "absent"
            /\ r.raced
            /\ r.m.k.ino.next <= MaxWd + 1
            /\ fs' = files2
            /\ watch_desc_etc' = r.m.wde
            /\ watch_desc_user' = r.m.wdu
            /\ ino' = r.m.k.ino
            /\ queue' = r.m.k.queue
            /\ cfg' = r.m.cfg
            /\ layers' = r.m.layers
            /\ ret' = r.m.ret
            /\ cm_pc' = IF r.m.panicked THEN "panicked" ELSE cm_pc
    /\ cm_op' = "poll_events"
    /\ polls' = 1 - polls
    /\ external' = TRUE
    /\ UNCHANGED <<width, user_env, writer>>

\* the other processes make no further change
WriterStops ==
    /\ UNCHANGED <<blvars, purevars>>
    /\ cm_pc = "poll"
    /\ writer = "on"
    /\ writer' = "stopped"
    /\ cm_op' = "env"
    /\ UNCHANGED <<cm_pc, watch_desc_etc, watch_desc_user, cfg, layers, width,
                   fs, user_env, ino, queue, ret, polls, external>>

----------------------------------------------------------------------------
(* display_to_touchbar over the full width of its u32 arguments.            *)
(* A u32 is held as two 16-bit limbs <<high, low>>.                         *)

Limb == 65536
U32(n) == <<n \div Limb, n % Limb>>
U32_MAX == <<Limb - 1, Limb - 1>>
\* u32 `+ 1` without overflow checks
wrapping_add_one(v) ==
    IF v[2] < Limb - 1 THEN <<v[1], v[2] + 1>>
    ELSE IF v[1] < Limb - 1 THEN <<v[1] + 1, 0>>
    ELSE <<0, 0>>
\* u32::min against a 16-bit value, as a number
MinU32(v, small) == IF v[1] > 0 THEN small ELSE Min(v[2], small)

\* `(normalized.powf(0.5) * active_brightness as f64) as u32` where the
\* active brightness does not fit 16 bits: 0.0 at display 0, and
\* 1.0 * active_brightness, exact in f64, at display MAX_DISPLAY_BRIGHTNESS
ScaledSqrtWide(d, a32) == IF d = 0 THEN U32(0) ELSE a32

\* display_to_touchbar: the value returned, or a panic when `+ 1` overflows
\* in a build with overflow checks; without them the sum wraps
display_to_touchbar_u32(d, a32, overflow_checks) ==
    IF a32[1] = 0
    THEN [panicked |-> FALSE, value |-> display_to_touchbar(d, a32[2])]
    ELSE LET raw == ScaledSqrtWide(d, a32) IN
         IF raw = U32_MAX /\ overflow_checks
         THEN [panicked |-> TRUE, value |-> 0]
         ELSE [panicked |-> FALSE,
               value |-> MinU32(wrapping_add_one(raw), MAX_TOUCH_BAR_BRIGHTNESS)]

\* arguments of the modelled calls
NarrowActive == {0, 1, 128, 255, 600}
WideActive == {U32_MAX, <<Limb - 1, Limb - 2>>, <<1, 0>>}
MapperInputs ==
    [display : 0..MAX_DISPLAY_BRIGHTNESS, active : {U32(a) : a \in NarrowActive},
     overflow_checks : BOOLEAN]
    \cup [display : {0, MAX_DISPLAY_BRIGHTNESS}, active : WideActive,
           overflow_checks : BOOLEAN]

NoCall == [pc |-> "idle"]

InitMap == mp \in {[pc |-> "call", args |-> i, out |-> [panicked |-> FALSE, value |-> 0]] :
                      i \in MapperInputs}

\* the call returns or panics
DisplayToTouchbar ==
    /\ mp.pc = "call"
    /\ mp' = [mp EXCEPT
                !.pc = "done",
                !.out = display_to_touchbar_u32(mp.args.display, mp.args.active,
                                                mp.args.overflow_checks)]
    /\ UNCHANGED <<blvars, cmvars, ld>>


----------------------------------------------------------------------------
(* load_commands, load_expandables, load_hyprland_expandables               *)
(* (config.rs:190-218, 229-257, 259-287) and the Config they complete       *)

\* a map-typed file: absent, present but not parsable, or a parsed HashMap
AbsentMap == [st |-> "absent", map |-> <<>>]
BadMap == [st |-> "bad", map |-> <<>>]
OkMap(m) == [st |-> "ok", map |-> m]

\* mutant: keys already present keep their value
Mut_Extend(base, over) ==
    [k \in DOMAIN base \cup DOMAIN over |->
        IF k \in DOMAIN base THEN base[k] ELSE over[k]]
\* HashMap::extend: the keys of `over` are inserted, replacing equal keys
Extend(base, over) ==
    [k \in DOMAIN base \cup DOMAIN over |->
        IF k \in DOMAIN over THEN over[k] ELSE base[k]]

\* the body the three loaders share: extend an empty map by each readable
\* tier in turn, the per-user tier only with a detected desktop user
LoadMap(tiers, detected) ==
    LET m0 == <<>>
        m1 == IF tiers.usr.st = "ok" THEN Extend(m0, tiers.usr.map) ELSE m0
        m2 == IF tiers.etc.st = "ok" THEN Extend(m1, tiers.etc.map) ELSE m1
    IN  IF detected /\ tiers.user.st = "ok" THEN Extend(m2, tiers.user.map) ELSE m2

load_commands(maps, detected) == LoadMap(maps.commands, detected)
load_expandables(maps, detected) == LoadMap(maps.expandables, detected)
load_hyprland_expandables(maps, detected) == LoadMap(maps.hyprland, detected)

\* load_config with the map-typed fields of Config
load_config(w, files, maps, detected, fontOk) ==
    LET parts == LoadConfig(w, files, detected, fontOk) IN
    IF ~parts.ok THEN NoConfig
    ELSE [ok |-> TRUE,
          cfg |-> [commands |-> load_commands(maps, detected),
                   expandables |-> load_expandables(maps, detected),
                   hyprland_expandables |->
                       load_hyprland_expandables(maps, detected)] @@ parts.cfg,
          layers |-> parts.layers]

(* Inputs of the modelled calls *)

\* a package default that leaves out a field load_config unwraps
PartialProxy == [BaseProxy EXCEPT !["active_brightness"] = None]

LoadFiles ==
    [usr : {OkFile(BaseProxy), OkFile(PartialProxy), BadFile, AbsentFile},
     etc : EtcWrites \cup {BadFile, AbsentFile},
     user : {OkFile(UserProxyA), OkFile(EmptyProxy), BadFile, AbsentFile}]

LoadWidths == {0, 2169, 2170, 65535}

MapKinds == {"commands", "expandables", "hyprland"}
\* values of the three map types: a command line, a button list, a rule list
MapValue(kind, n) ==
    IF kind = "commands" THEN n
    ELSE IF kind = "expandables" THEN <<n>>
    ELSE <<[class |-> n]>>
MapTiers(kind) ==
    [usr : {AbsentMap, OkMap([x |-> MapValue(kind, "cmd1")])},
     etc : {AbsentMap, BadMap, OkMap([y |-> MapValue(kind, "cmd2")])},
     user : {AbsentMap, BadMap, OkMap([x |-> MapValue(kind, "cmd3")])}]
NoMaps == [usr |-> AbsentMap, etc |-> AbsentMap, user |-> AbsentMap]
\* the files of one of the three artifacts, the other two artifacts absent
LoadMaps ==
    UNION {{[k \in MapKinds |-> IF k = kind THEN t ELSE NoMaps] :
               t \in MapTiers(kind)} : kind \in MapKinds}

InitLoad ==
    ld \in [pc : {"call"}, w : LoadWidths, files : LoadFiles, maps : LoadMaps,
             detected : BOOLEAN, fontOk : BOOLEAN, out : {NoConfig}]

\* the call returns the pair or panics
LoadConfigCall ==
    /\ ld.pc = "call"
    /\ \E r \in {load_config(ld.w, ld.files, ld.maps, ld.detected, ld.fontOk)} :
          ld' = [ld EXCEPT !.pc = IF r.ok THEN "done" ELSE "panicked", !.out = r]
    /\ UNCHANGED <<blvars, cmvars, mp>>

\* the pure calls, not made, while the controller or the manager runs
IdlePure == mp = NoCall /\ ld = NoCall

----------------------------------------------------------------------------
(* The specification of the backlight controller *)

\* the manager, not yet constructed, while the controller runs
IdleCM ==
    /\ InitCM
    /\ width = 2170
    /\ fs = [usr |-> OkFile(BaseProxy), etc |-> AbsentFile, user |-> AbsentFile]
    /\ user_env = FALSE

Init == InitBL /\ IdleCM /\ IdlePure

Next ==
    \/ FindRetry
    \/ FindOk
    \/ FindGiveUp
    \/ ProcessEvent
    \/ UpdateBacklight
    \/ Advance
    \/ ConfigChange
    \/ DisplayChange

Spec == Init /\ [][Next]_vars

\* new() runs to its end: find_backlight and the sleep both return
NewStep == FindRetry \/ FindOk \/ FindGiveUp
SpecFair == Spec /\ WF_vars(NewStep)

----------------------------------------------------------------------------
(* The specification of the configuration manager *)

\* the controller, not yet constructed, while the manager runs
IdleBL ==
    /\ InitBL
    /\ display = 127
    /\ blcfg = [adaptive_brightness |-> FALSE, active_brightness |-> 128]

InitCMSpec == InitCM /\ IdleBL /\ IdlePure

NextCM ==
    \/ CMNew
    \/ InitialLoad
    \/ UpdateConfig
    \/ \E slot \in Slots : WriteFile(slot)
    \/ \E slot \in Slots : DeleteFile(slot)
    \/ DetectUser

SpecCM == InitCMSpec /\ [][NextCM]_vars

\* the manager with writers that race its reloads and eventually stop, and a
\* caller that keeps polling
NextCMRace ==
    \/ CMNew
    \/ InitialLoad
    \/ UpdateConfig
    \/ UpdateConfigRacing
    \/ \E slot \in Slots : WriteFile(slot)
    \/ DetectUser
    \/ WriterStops
SpecCMRace == InitCMSpec /\ [][NextCMRace]_vars /\ WF_vars(UpdateConfig)

----------------------------------------------------------------------------
(* The specifications of the pure functions *)

InitMapSpec == IdleBL /\ IdleCM /\ InitMap /\ ld = NoCall
NextMap == DisplayToTouchbar
SpecMap == InitMapSpec /\ [][NextMap]_vars

InitLoadSpec == IdleBL /\ IdleCM /\ InitLoad /\ mp = NoCall
NextLoad == LoadConfigCall
SpecLoad == InitLoadSpec /\ [][NextLoad]_vars


----------------------------------------------------------------------------
(* Claims about the backlight controller, checked under Spec *)

EventOps == {"ev_activity", "ev_lid_close", "ev_lid_open", "ev_other"}

\* C1: with a controllable device and the lid open, the value a tick computes
\* before the clamp is decided by elapsed = now - last_active alone: the active
\* value (active_brightness, or the mapped reading in adaptive mode) below
\* 3*TIMEOUT_MS, the dimmed constant 1 from 3*TIMEOUT_MS up to but excluding
\* 6*TIMEOUT_MS, and 0 from 6*TIMEOUT_MS on.
C1_TargetByElapsed ==
    (op = "tick" /\ target # -1 /\ bl_file /\ lid_state = "Off") =>
        LET elapsed == now - last_active
            activeValue ==
                IF blcfg.adaptive_brightness /\ display_bl_path
                THEN display_to_touchbar(display, blcfg.active_brightness)
                ELSE blcfg.active_brightness
        IN  /\ (elapsed < 3 * TIMEOUT_MS) => target = activeValue
            /\ (3 * TIMEOUT_MS <= elapsed /\ elapsed < 6 * TIMEOUT_MS) => target = 1
            /\ (elapsed >= 6 * TIMEOUT_MS) => target = 0

\* a tick exactly at the dim boundary, with a non-trivial active value
C1_Witness ==
    /\ op = "tick" /\ bl_file /\ lid_state = "Off"
    /\ now - last_active = 3 * TIMEOUT_MS
    /\ blcfg.active_brightness > 1
    /\ target = 1

\* C2: while the last lid toggle delivered was a close, every tick computes 0,
\* whatever the elapsed time and whatever activity events arrived since.
C2_LidClosedTargetsZero ==
    (op = "tick" /\ target # -1 /\ lidClosed) => target = 0

\* a tick with the lid closed right after activity, which would otherwise be Active
C2_Witness ==
    /\ op = "tick" /\ bl_file /\ lidClosed
    /\ last_active = now /\ now > 0
    /\ blcfg.active_brightness > 0
    /\ target = 0

\* C3: process_event changes exactly this: an activity event sets last_active
\* to now and keeps the lid state; a lid close sets the lid state and keeps
\* last_active; a lid open sets the lid state and sets last_active to now; any
\* other event keeps both. No event changes current_bl or writes the device.
C3_EventFrame ==
    [][ (op' \in EventOps) =>
          /\ (op' = "ev_activity") => (last_active' = now /\ lid_state' = lid_state)
          /\ (op' = "ev_lid_close") => (lid_state' = "On" /\ last_active' = last_active)
          /\ (op' = "ev_lid_open") => (lid_state' = "Off" /\ last_active' = now)
          /\ (op' = "ev_other") => (last_active' = last_active /\ lid_state' = lid_state)
          /\ current_bl' = current_bl
          /\ dev' = dev
          /\ ~wrote'
          /\ UNCHANGED <<pc, bl_file, max_bl, display_bl_path>>
      ]_vars

\* a lid close that left an older last_active in place
C3_Witness ==
    op = "ev_lid_close" /\ lid_state = "On" /\ last_active < now

\* C4: a tick calls set_backlight exactly when the clamped target differs from
\* current_bl, and then current_bl is that target (and so is the device, when
\* the write succeeds); a tick right after a tick with the same target writes
\* nothing.
C4_WriteOnlyOnChange ==
    [][ (op' = "tick") =>
          /\ (target' = -1) => (~wrote' /\ current_bl' = current_bl /\ dev' = dev)
          /\ (target' # -1) =>
                LET new_bl == Min(max_bl, target') IN
                /\ wrote' <=> (new_bl # current_bl)
                /\ current_bl' = new_bl
                /\ (wrote' /\ pc' = "run") => dev' = new_bl
                /\ ~wrote' => dev' = dev
          /\ (op = "tick" /\ target # -1 /\ target' = target) => ~wrote'
      ]_vars

\* a tick that computed a target equal to the current value and wrote nothing
C4_Witness ==
    /\ op = "tick" /\ target # -1 /\ ~wrote
    /\ current_bl = Min(max_bl, target)
    /\ dev = current_bl
    /\ current_bl = DIMMED_BRIGHTNESS

\* C5: from the end of construction on, 0 <= current_bl <= max_bl.
C5_BrightnessWithinMax ==
    (pc = "run") => (0 <= current_bl /\ current_bl <= max_bl)

\* discovery failed on every attempt
Degraded == pc = "run" /\ ~bl_path

\* C6: once discovery has failed on every attempt the controller stays
\* degraded: discovery is not retried, no step calls set_backlight, a tick
\* changes nothing, and current_bl is the nominal 255.
C6_DegradedForever ==
    [][ /\ Degraded => (Degraded' /\ attempts' = 0)
        /\ Degraded' =>
              /\ current_bl' = 255
              /\ ~bl_file'
              /\ ~wrote'
              /\ (Degraded /\ op' = "tick") =>
                    UNCHANGED <<pc, bl_path, bl_file, max_bl, current_bl, lid_state,
                                last_active, display_bl_path, dev>>
      ]_vars

\* a tick in degraded mode, lid open, past the off threshold
C6_Witness ==
    /\ Degraded /\ op = "tick" /\ lid_state = "Off"
    /\ now - last_active >= BRIGHTNESS_OFF_TIMEOUT
    /\ current_bl = 255

SpecCMFair == SpecCM /\ WF_vars(UpdateConfig)

----------------------------------------------------------------------------
(* Claims about the configuration manager, checked under SpecCM *)

\* an event of the system-tier watch the manager tracks is in the queue
PendingEtcEvent ==
    /\ watch_desc_etc # 0
    /\ \E i \in DOMAIN queue : queue[i].wd = watch_desc_etc

\* the model cannot hand out the descriptors the next poll needs
OutOfDescriptors == cm_pc = "poll" /\ ~ENABLED UpdateConfig

\* C8: an event of the armed system-tier watch that is pending when a poll
\* takes the user-watch-unarmed early return is eventually drained by a later
\* poll that reloads and returns true (checked under SpecCMFair, where the
\* caller keeps polling).
C8_DeferredEventDrained ==
    (cm_op = "poll_early" /\ PendingEtcEvent)
        ~> ((cm_op = "poll_events" /\ ret) \/ OutOfDescriptors)

\* a poll read events and reloaded
Reloaded == cm_pc = "poll" /\ cm_op = "poll_events" /\ ret

\* C9 as stated: after a poll that reloaded, both watch handles are armed.
C9_BothArmedAfterReload ==
    Reloaded => (watch_desc_etc # 0 /\ watch_desc_user # 0)

\* C9 amended: after a poll that reloaded, each tier whose file exists (the
\* user tier: with a desktop user detected) holds the descriptor of a live
\* watch, and a tier whose file is missing is left unarmed.
C9_ExistingArmedAfterReload ==
    Reloaded =>
        /\ (fs.etc.st # "absent") =>
              (watch_desc_etc # 0 /\ ino.watch["etc"] = watch_desc_etc)
        /\ (fs.etc.st = "absent") => watch_desc_etc = 0
        /\ (user_env /\ fs.user.st # "absent") =>
              (watch_desc_user # 0 /\ ino.watch["user"] = watch_desc_user)
        /\ (user_env /\ fs.user.st = "absent") => watch_desc_user = 0

\* a reload caused by the user tier while the system-tier file is missing
C9_Witness ==
    /\ Reloaded
    /\ fs.etc.st = "absent" /\ watch_desc_etc = 0
    /\ watch_desc_user # 0 /\ ino.watch["user"] = watch_desc_user

\* C10: whenever the caller holds a Config it holds layers too, and both were
\* produced by the same load_config call.
C10_MatchedPair ==
    /\ Loaded(cfg) = Loaded(layers)
    /\ Loaded(cfg) => cfg.src = layers.src
    /\ (cm_pc = "poll") => Loaded(cfg)

\* a reload that picked up a written system-tier file
C10_Witness ==
    /\ Reloaded
    /\ cfg.src.files.etc = OkFile(EtcProxyA)
    /\ cfg.active_brightness = 200
    /\ layers.src = cfg.src

\* an event in the queue carries the descriptor of a watch the manager tracks
TrackedEventPending ==
    \E i \in DOMAIN queue :
        queue[i].wd # 0 /\ queue[i].wd \in {watch_desc_etc, watch_desc_user}

\* C11: a poll that returns gives true exactly when it drained an event of a
\* tracked watch (the user watch being armed at its start); it then holds the
\* result of a load_config over the current files, and when it gives false
\* the caller's config and layers are what they were.
C11_TrueIffReloaded ==
    [][(polls' # polls /\ cm_pc' = "poll") =>
          /\ ret' <=> (watch_desc_user # 0 /\ TrackedEventPending)
          /\ ret' => /\ cfg' = LoadConfig(width, fs, user_env, TRUE).cfg
                      /\ layers' = LoadConfig(width, fs, user_env, TRUE).layers
          /\ ~ret' => (cfg' = cfg /\ layers' = layers)
      ]_vars

\* a poll that drained events of untracked descriptors only and returned false
C11_Witness ==
    /\ cm_pc = "poll" /\ cm_op = "poll_events" /\ ~ret
    /\ queue = <<>>
    /\ watch_desc_etc # 0 /\ watch_desc_user # 0

----------------------------------------------------------------------------
(* Claims about load_config, checked under SpecLoad *)

\* the value the highest tier that supplies field f gives it, None if no
\* tier does: per-user (readable, with a detected user), else system, else
\* package default
TierValue(f) ==
    IF ld.detected /\ ld.files.user.st = "ok" /\ IsSome(ld.files.user.proxy[f])
    THEN ld.files.user.proxy[f]
    ELSE IF ld.files.etc.st = "ok" /\ IsSome(ld.files.etc.proxy[f])
    THEN ld.files.etc.proxy[f]
    ELSE ld.files.usr.proxy[f]

\* the layer a key list gives at the width of the call
LayerOf(f) == WithEsc(ld.w, Unwrap(TierValue(f)))

\* C12: every scalar field of the resolved configuration holds the per-user
\* value if that tier supplies the field, else the system value if supplied,
\* else the package default's (else the built-in default, for the fields
\* that have one); a tier that omits a field erases nothing.
C12_RightBiasedPerField ==
    ld.pc = "done" =>
        /\ ld.out.cfg.show_button_outlines = Unwrap(TierValue("show_button_outlines"))
        /\ ld.out.cfg.enable_pixel_shift = Unwrap(TierValue("enable_pixel_shift"))
        /\ ld.out.cfg.adaptive_brightness = Unwrap(TierValue("adaptive_brightness"))
        /\ ld.out.cfg.font_face = Unwrap(TierValue("font_template"))
        /\ ld.out.cfg.active_brightness = Unwrap(TierValue("active_brightness"))
        /\ ld.out.cfg.keyboard_brightness_step =
               UnwrapOr(TierValue("keyboard_brightness_step"), 32)
        /\ ld.out.cfg.keyboard_brightness_enabled =
               UnwrapOr(TierValue("keyboard_brightness_enabled"), TRUE)
        /\ ld.out.cfg.back_button_show_outlines =
               UnwrapOr(TierValue("back_button_show_outlines"), FALSE)
        /\ ld.out.cfg.back_button_outline_color = TierValue("back_button_outline_color")
        /\ ld.out.cfg.expandable_timeout_seconds =
               UnwrapOr(TierValue("expandable_timeout_seconds"), 5)
        /\ <<ld.out.layers.first, ld.out.layers.second>> =
               IF Unwrap(TierValue("media_layer_default"))
               THEN <<LayerOf("media_layer_keys"), LayerOf("primary_layer_keys")>>
               ELSE <<LayerOf("primary_layer_keys"), LayerOf("media_layer_keys")>>

\* all three tiers readable: the user's brightness and media keys, the system's
\* primary keys, the package default's remaining fields
C12_Witness ==
    /\ ld.pc = "done" /\ ld.detected /\ ld.w = 2169
    /\ ld.files.usr = OkFile(BaseProxy)
    /\ ld.files.etc = OkFile(EtcProxyA)
    /\ ld.files.user = OkFile(UserProxyA)
    /\ ld.out.cfg.active_brightness = 64
    /\ ld.out.layers.first = <<"F1">>
    /\ ld.out.layers.second = <<"Mute">>
    /\ ld.out.cfg.adaptive_brightness

\* the tiers of a map-typed artifact that are read and parse, lowest first
ReadableTiers(tiers) ==
    LET on(t) == tiers[t].st = "ok" /\ (t = "user" => ld.detected)
    IN  [t \in {"usr", "etc", "user"} |-> on(t)]

\* the value of key k in the highest readable tier that defines it
HighestTierValue(tiers, k) ==
    LET r == ReadableTiers(tiers) IN
    IF r["user"] /\ k \in DOMAIN tiers.user.map THEN tiers.user.map[k]
    ELSE IF r["etc"] /\ k \in DOMAIN tiers.etc.map THEN tiers.etc.map[k]
    ELSE tiers.usr.map[k]

\* a resolved map is the per-key union of the readable tiers, later tiers winning
UnionLaterWins(m, tiers) ==
    /\ DOMAIN m = UNION {DOMAIN tiers[t].map :
                            t \in {t \in {"usr", "etc", "user"} : ReadableTiers(tiers)[t]}}
    /\ \A k \in DOMAIN m : m[k] = HighestTierValue(tiers, k)

\* C13: commands, expandables and the per-app expansion rules are each the
\* per-key union of the readable tiers, a key taking the value of the highest
\* tier (user over system over package default) that defines it.
C13_MapUnionLaterWins ==
    ld.pc = "done" =>
        /\ UnionLaterWins(ld.out.cfg.commands, ld.maps.commands)
        /\ UnionLaterWins(ld.out.cfg.expandables, ld.maps.expandables)
        /\ UnionLaterWins(ld.out.cfg.hyprland_expandables, ld.maps.hyprland)

\* default {x: cmd1}, system {y: cmd2}, user {x: cmd3} give {x: cmd3, y: cmd2}
C13_Witness ==
    /\ ld.pc = "done" /\ ld.detected
    /\ ld.maps.commands = [usr |-> OkMap([x |-> "cmd1"]),
                            etc |-> OkMap([y |-> "cmd2"]),
                            user |-> OkMap([x |-> "cmd3"])]
    /\ ld.out.cfg.commands = [x |-> "cmd3", y |-> "cmd2"]

\* the merged key lists in the order of the two layers
ConfiguredLayers ==
    IF Unwrap(TierValue("media_layer_default"))
    THEN <<Unwrap(TierValue("media_layer_keys")), Unwrap(TierValue("primary_layer_keys"))>>
    ELSE <<Unwrap(TierValue("primary_layer_keys")), Unwrap(TierValue("media_layer_keys"))>>

\* layer is keys with exactly one escape key put in front
EscPrepended(layer, keys) ==
    /\ Len(layer) = Len(keys) + 1
    /\ layer[1] = EscKey
    /\ \A i \in 1..Len(keys) : layer[i + 1] = keys[i]

\* C14: at a width of 2170 or more both layers are the configured keys after
\* one escape key at position 0; at 2169 or less both layers are exactly the
\* configured keys.
C14_EscInsertion ==
    ld.pc = "done" =>
        /\ ld.w >= 2170 =>
              /\ EscPrepended(ld.out.layers.first, ConfiguredLayers[1])
              /\ EscPrepended(ld.out.layers.second, ConfiguredLayers[2])
        /\ ld.w <= 2169 =>
              /\ ld.out.layers.first = ConfiguredLayers[1]
              /\ ld.out.layers.second = ConfiguredLayers[2]

\* a call at the threshold width, the package default alone
C14_Witness ==
    /\ ld.pc = "done" /\ ld.w = 2170
    /\ ld.files.etc = AbsentFile /\ ld.files.user = AbsentFile
    /\ ld.out.layers.first = <<"esc", "F1", "F2">>
    /\ ld.out.layers.second = <<"esc", "BrightnessDown", "Mute">>

----------------------------------------------------------------------------
(* Claims about display_to_touchbar, checked under SpecMap *)

\* the modelled reading next below d for active brightness a32, if any
PrevReading(d, a32) ==
    IF d = 0 THEN {} ELSE IF a32[1] = 0 THEN {d - 1} ELSE {0}

\* C15: for every reference reading in [0, MAX_DISPLAY_BRIGHTNESS] and every
\* active brightness, the value display_to_touchbar returns is within
\* [1, MAX_TOUCH_BAR_BRIGHTNESS] and is not below the value it returns for
\* the next smaller reading (so, <= being transitive, for any smaller one).
C15_MonotoneWithinRange ==
    (mp.pc = "done" /\ ~mp.out.panicked) =>
        /\ mp.out.value >= 1
        /\ mp.out.value <= MAX_TOUCH_BAR_BRIGHTNESS
        /\ \A d \in PrevReading(mp.args.display, mp.args.active) :
              display_to_touchbar_u32(d, mp.args.active, FALSE).value
                  <= mp.out.value

----------------------------------------------------------------------------
(* Claims about the failures of load_config, checked under SpecLoad *)

\* a file as load_config would see it were it missing instead of unreadable
AsAbsent(f, absent) == IF f.st = "ok" THEN f ELSE absent

\* the inputs of the call with every override tier that is missing, does not
\* parse or (per-user) has no detected user replaced by an absent file
OverridesAbsent ==
    [files |-> [usr |-> ld.files.usr,
                etc |-> AsAbsent(ld.files.etc, AbsentFile),
                user |-> IF ld.detected THEN AsAbsent(ld.files.user, AbsentFile)
                         ELSE AbsentFile],
     maps |-> [k \in MapKinds |->
                [usr |-> AsAbsent(ld.maps[k].usr, AbsentMap),
                 etc |-> AsAbsent(ld.maps[k].etc, AbsentMap),
                 user |-> IF ld.detected THEN AsAbsent(ld.maps[k].user, AbsentMap)
                          ELSE AbsentMap]]]

\* a result without the record of the files the call read
Values(r) ==
    IF ~r.ok THEN r
    ELSE [ok |-> TRUE,
          cfg |-> [f \in DOMAIN r.cfg \ {"src"} |-> r.cfg[f]],
          layers |-> [f \in DOMAIN r.layers \ {"src"} |-> r.layers[f]]]

\* C16: font resolution apart, load_config fails only when the package
\* default main config is missing, does not parse or lacks a required field;
\* override files that are missing or do not parse, and the absence of a
\* detected user, give the result obtained with those tiers absent.
C16_OnlyPackageDefaultFatal ==
    ld.pc # "call" =>
        /\ (~ld.out.ok /\ ld.fontOk) =>
              \/ ld.files.usr.st # "ok"
              \/ \E f \in Mandatory : ~IsSome(ld.files.usr.proxy[f])
        /\ Values(ld.out) =
              Values(load_config(ld.w, OverridesAbsent.files, OverridesAbsent.maps,
                                 TRUE, ld.fontOk))

\* a call that succeeds with a system file and a per-user commands file that
\* do not parse
C16_Witness ==
    /\ ld.pc = "done" /\ ld.detected
    /\ ld.files.etc = BadFile
    /\ ld.files.user = OkFile(UserProxyA)
    /\ ld.maps.commands.user = BadMap
    /\ ld.maps.commands.usr.st = "ok"
    /\ ld.out.cfg.active_brightness = 64
    /\ ld.out.cfg.commands = [x |-> "cmd1"]

----------------------------------------------------------------------------
(* Further claims about the configuration manager, checked under SpecCM *)

\* C17: a poll that starts with the user-tier watch unarmed returns false,
\* leaves the event queue, the config and the layers as they were, and has
\* armed the user-tier watch if a user is detected and the file exists
\* (and not otherwise), whatever events are pending.
C17_UnarmedPollReturnsEarly ==
    [][(polls' # polls /\ watch_desc_user = 0) =>
          /\ ret' = FALSE
          /\ cm_pc' = cm_pc
          /\ queue' = queue
          /\ cfg' = cfg /\ layers' = layers
          /\ IF user_env /\ fs.user.st # "absent"
             THEN watch_desc_user' # 0 /\ ino'.watch["user"] = watch_desc_user'
             ELSE watch_desc_user' = 0
      ]_vars

\* an early return that armed the user-tier watch with a system-tier event pending
C17_Witness ==
    /\ cm_pc = "poll" /\ cm_op = "poll_early" /\ ~ret
    /\ watch_desc_user # 0 /\ ino.watch["user"] = watch_desc_user
    /\ PendingEtcEvent

----------------------------------------------------------------------------
(* Further claims about the backlight controller, checked under Spec *)

\* construction ended without a device; `attempts` still holds the loop's count
GaveUp == pc = "run" /\ op = "new" /\ ~bl_path

\* C18 as stated: the discovery loop makes at most 5 calls of find_backlight,
\* and goes on degraded after 5 failed ones. (`attempts` failed calls have
\* been made when the loop is about to make the next.)
C18_FiveAttempts ==
    /\ (pc = "find") => attempts + 1 <= 5
    /\ GaveUp => attempts + 1 = 5

\* C18 amended: the discovery loop makes at most 6 calls of find_backlight,
\* the first and up to 5 retries, and goes on degraded after the 6th failed.
C18_SixAttempts ==
    /\ (pc = "find") => attempts + 1 <= 6
    /\ GaveUp => attempts + 1 = 6

\* construction that gave up: five sleeps, then the failed sixth call
C18_Witness ==
    /\ GaveUp /\ attempts = 5
    /\ ~bl_file /\ max_bl = 255 /\ current_bl = 255

\* C19: construction terminates whether or not the device appears; the loop
\* sleeps at most 5 times, a sleep happens only inside construction, and once
\* construction is over no step sleeps, re-enters the discovery loop or
\* changes what discovery found (checked under SpecFair, where new() keeps
\* running).
C19_ConstructionTerminates ==
    /\ <>(pc = "run")
    /\ [](attempts <= 5)
    /\ [](op = "sleep" => pc = "find")
    /\ [][(pc # "find") =>
            /\ pc' # "find"
            /\ op' # "sleep"
            /\ bl_path' = bl_path
            /\ display_bl_path' = display_bl_path
         ]_vars

\* the fifth sleep of a construction whose device has not appeared
C19_Witness ==
    pc = "find" /\ op = "sleep" /\ attempts = 5

\* C20: a tick of a controller with a device, lid open and elapsed below the
\* dim threshold, targets the mapper's value over the reference display's
\* reading when adaptive mode is on and a reference display was discovered,
\* and the configured active_brightness otherwise; a tick reads the reference
\* display in exactly that adaptive case, so only there can a failed read of
\* it end the program.
C20_ReferenceReadOnlyWhenAdaptiveActive ==
    [][(op' = "tick") =>
          LET active == bl_file /\ lid_state = "Off"
                           /\ now - last_active < BRIGHTNESS_DIM_TIMEOUT
              adaptive == blcfg.adaptive_brightness /\ display_bl_path
          IN  /\ readRef' <=> (active /\ adaptive)
              /\ (active /\ target' # -1) =>
                     target' = IF adaptive
                               THEN display_to_touchbar(display, blcfg.active_brightness)
                               ELSE blcfg.active_brightness
              /\ (pc' = "panicked" /\ ~wrote') => readRef'
      ]_vars

\* an adaptive tick in the Active state that mapped the reference reading
C20_Witness ==
    /\ pc = "run" /\ op = "tick" /\ readRef
    /\ blcfg.active_brightness = 128
    /\ display = 127
    /\ target = 64

----------------------------------------------------------------------------
(* Claims about arming, reload causes and lost updates of the manager *)

\* C21: a poll that starts with a watch handle unarmed and returns leaves it
\* armed with a live watch when its file exists (for the user tier: and a
\* desktop user is detected); when the path is missing the handle stays
\* unarmed and the poll returns as usual.
C21_UnarmedWatchArmedWhenPathExists ==
    [][(polls' # polls /\ cm_pc' = "poll") =>
          /\ (watch_desc_etc = 0 /\ fs.etc.st # "absent") =>
                (watch_desc_etc' # 0 /\ ino'.watch["etc"] = watch_desc_etc')
          /\ (watch_desc_etc = 0 /\ fs.etc.st = "absent") => watch_desc_etc' = 0
          /\ (watch_desc_user = 0 /\ user_env /\ fs.user.st # "absent") =>
                (watch_desc_user' # 0 /\ ino'.watch["user"] = watch_desc_user')
          /\ (watch_desc_user = 0 /\ ~(user_env /\ fs.user.st # "absent")) =>
                watch_desc_user' = 0
      ]_vars
    /\ [][(polls' # polls /\ watch_desc_user = 0) => cm_pc' = "poll"]_vars

\* a poll that armed the user-tier watch while the system-tier file is missing
C21_Witness ==
    /\ cm_pc = "poll" /\ cm_op = "poll_early"
    /\ watch_desc_user # 0 /\ ino.watch["user"] = watch_desc_user
    /\ fs.etc.st = "absent" /\ watch_desc_etc = 0

----------------------------------------------------------------------------
(* Claims about the brightness over time, checked under Spec *)

\* C22: with a device, the lid open and adaptive mode off, a tick that follows
\* an earlier tick with no event and no config change in between never holds
\* a higher brightness than the earlier tick left.
C22_BrightnessNeverIncreasesWhenIdle ==
    [][(op' = "tick" /\ quiet /\ bl_file /\ lid_state = "Off"
            /\ ~blcfg.adaptive_brightness)
          => current_bl' <= current_bl
      ]_vars

----------------------------------------------------------------------------
(* Claims about the causes of a reload, checked under SpecCM *)

\* C23: while no other process has written or removed a watched file, every
\* poll returns false: the manager's own reads of the watched files never
\* make update_config report a reload.
C23_NoReloadWithoutExternalChange ==
    (cm_pc = "poll" /\ ret) => external

----------------------------------------------------------------------------
(* Claims about lost updates, checked under SpecCMRace *)

\* both override files exist, both watches have been armed, and the other
\* processes have made their last change
WriterDone ==
    /\ cm_pc = "poll"
    /\ writer = "stopped"
    /\ fs.etc.st # "absent" /\ fs.user.st # "absent"
    /\ watch_desc_etc # 0 /\ watch_desc_user # 0

\* both override files exist and, from construction on, both watch handles
\* hold a descriptor
BothTiersWatched ==
    /\ fs.etc.st # "absent" /\ fs.user.st # "absent"
    /\ cm_pc # "new" => (watch_desc_etc # 0 /\ watch_desc_user # 0)

\* the live configuration is the one resolved from the files as they are
LiveIsResolved ==
    LET parts == LoadConfig(width, fs, user_env, TRUE)
    IN  parts.ok /\ cfg = parts.cfg /\ layers = parts.layers

\* C24: with both override files existing and both watches armed at least
\* once, once the writers have stopped and polling continues the live
\* configuration eventually equals the configuration resolved from the final
\* file contents, whatever the interleaving of the writes with the reloads
C24_NoUpdateLost ==
    []BothTiersWatched => (WriterDone ~> (LiveIsResolved \/ OutOfDescriptors))

============================================================================
